---------------------------- MODULE Spec2Model ----------------------------
(***************************************************************************)
(* State-machine model of the InsideSuccess Link Ingestor (src/main.py and *)
(* the stand-alone src/is-link-ingestor/main.py).                          *)
(*                                                                         *)
(* Python values are tagged records.  A str is a sequence of atoms: the    *)
(* atoms " ", "\t", "\n" and "\r" are the whitespace characters, every     *)
(* other atom is an opaque piece of non-whitespace text.                   *)
(***************************************************************************)
EXTENDS Integers, Sequences, FiniteSets, TLC

VARIABLES
    INGESTS,        \* the in-memory store, newest first (src/main.py:24)
    clock,          \* the wall clock read by now_utc_iso
    shared_secret,  \* deployment configuration: the secret of the access gate
    scenario,       \* which slice of the input space this run draws from
    req,            \* the last request received
    resp,           \* the response given to it
    log,            \* history: every record handed to push_ingest, oldest first
    wpc,            \* position of the event-loop thread inside push_ingest
    rpc,            \* position of a worker thread inside a read handler
    rseen           \* what that worker thread has read so far

vars == <<INGESTS, clock, shared_secret, scenario, req, resp, log, wpc, rpc, rseen>>

(***************************************************************************)
(* Bounds of the model.  MAX_INGESTS is 50 in the source (src/main.py:23); *)
(* the model runs the same code with a small capacity.                     *)
(***************************************************************************)
MAX_INGESTS == 3

\* insertions explored with the small input sets (more than MAX_INGESTS + 1)
MaxInserts == 5

\* longest pasted text, in characters
MaxLen == 3

(***************************************************************************)
(* Python values                                                           *)
(***************************************************************************)
Str(cs) == [t |-> "str", s |-> cs]

T(tok) == Str(<<tok>>)

NoneV == [t |-> "None"]

PyInt(n) == [t |-> "int", v |-> n]

List(xs) == [t |-> "list", v |-> xs]

\* a key that a JSON object or a form does not carry (inputs only)
Missing == [t |-> "missing"]

IsStr(x) == x.t = "str"

\* a dict nested in a list is the function from its keys to their values;
\* every other value carries its tag t
IsDict(x) == "t" \notin DOMAIN x

\* Python truthiness of the values used here
Truthy(x) ==
    CASE x.t = "str" -> x.s /= << >>
      [] x.t = "list" -> x.v /= << >>
      [] x.t = "int" -> x.v /= 0
      [] OTHER -> FALSE

\* len(x) is defined for str and list; for None and int it raises TypeError
HasLen(x) == x.t \in {"str", "list"}

PyLen(x) == IF x.t = "str" THEN Len(x.s) ELSE Len(x.v)

\* dict.get(key, default) on a dict modelled as a function over its keys
Get(d, k, default) == IF k \in DOMAIN d THEN d[k] ELSE default

\* the dict holding exactly the keys of full whose value is not Missing
MkDict(full) == [k \in {j \in DOMAIN full : full[j] /= Missing} |-> full[k]]

(***************************************************************************)
(* str.strip, str.splitlines, str.replace                                  *)
(***************************************************************************)
Whitespace == {" ", "\t", "\n", "\r"}

LineBreaks == {"\n", "\r"}

RECURSIVE lstrip(_)
lstrip(cs) ==
    IF cs /= << >> /\ Head(cs) \in Whitespace THEN lstrip(Tail(cs)) ELSE cs

RECURSIVE rstrip(_)
rstrip(cs) ==
    IF cs /= << >> /\ cs[Len(cs)] \in Whitespace
    THEN rstrip(SubSeq(cs, 1, Len(cs) - 1))
    ELSE cs

strip(cs) == rstrip(lstrip(cs))

\* splitlines: "\n", "\r" and "\r\n" each end a line; no empty last line
RECURSIVE splitlines_from(_, _, _, _)
splitlines_from(cs, i, cur, acc) ==
    IF i > Len(cs) THEN (IF cur = << >> THEN acc ELSE Append(acc, cur))
    ELSE IF cs[i] \in LineBreaks
         THEN splitlines_from(cs,
                              IF cs[i] = "\r" /\ i < Len(cs) /\ cs[i + 1] = "\n"
                              THEN i + 2 ELSE i + 1,
                              << >>, Append(acc, cur))
    ELSE splitlines_from(cs, i + 1, Append(cur, cs[i]), acc)

splitlines(cs) == splitlines_from(cs, 1, << >>, << >>)

\* text.replace("\n", " ")
replace_newlines(cs) == [i \in 1..Len(cs) |-> IF cs[i] = "\n" THEN " " ELSE cs[i]]

(***************************************************************************)
(* pydantic: HttpUrl, Item, Payload (src/main.py:27-40)                    *)
(***************************************************************************)
\* lower-casing of the scheme and host atoms used by the inputs
Lower(tok) ==
    CASE tok = "HTTPS" -> "https"
      [] tok = "A.Example" -> "a.example"
      [] OTHER -> tok

\* a str is a valid HttpUrl when it reads scheme "://" host [path ...] with an
\* http or https scheme (case-insensitive) and a host
IsHttpUrl(x) ==
    /\ IsStr(x)
    /\ Len(x.s) >= 3
    /\ Lower(x.s[1]) \in {"http", "https"}
    /\ x.s[2] = "://"
    /\ x.s[3] \notin Whitespace \cup {"/"}

\* the Url object pydantic builds: scheme and host lower-cased, and the path
\* "/" when the text carries none
HttpUrl_verbatim(x) == [t |-> "Url", s |-> x.s]

HttpUrl(x) ==
    [t |-> "Url",
     s |-> <<Lower(x.s[1]), "://", Lower(x.s[3])>>
           \o (IF Len(x.s) = 3 THEN <<"/">> ELSE SubSeq(x.s, 4, Len(x.s)))]

\* str(url)
UrlText(u) == Str(u.s)

\* Optional[str] = None
OptionalStrOk(d, k) == IF k \in DOMAIN d THEN d[k].t \in {"str", "None"} ELSE TRUE

RequiredStrOk_any_type(d, k) == k \in DOMAIN d

\* a required str field: present, and a str
RequiredStrOk(d, k) == IF k \in DOMAIN d THEN IsStr(d[k]) ELSE FALSE

ItemOk(it) ==
    /\ RequiredStrOk(it, "platform")
    /\ OptionalStrOk(it, "dateISO")
    /\ IF "url" \in DOMAIN it THEN IsHttpUrl(it["url"]) ELSE FALSE
    /\ OptionalStrOk(it, "text")

\* Item.model_dump() of the validated item
Item(it) ==
    [platform |-> it["platform"],
     dateISO |-> Get(it, "dateISO", NoneV),
     url |-> HttpUrl(it["url"]),
     text |-> Get(it, "text", NoneV)]

PayloadOk(body) ==
    /\ body.t = "dict"
    /\ \A k \in {"source", "page", "platform", "startDate", "endDate"} :
           RequiredStrOk(body.d, k)
    /\ "items" \in DOMAIN body.d
    /\ body.d["items"].t = "list"
    /\ \A i \in 1..Len(body.d["items"].v) : ItemOk(body.d["items"].v[i])

\* the validated Payload: its string fields and its list of Item
Payload(body) ==
    [source |-> body.d["source"],
     page |-> body.d["page"],
     platform |-> body.d["platform"],
     startDate |-> body.d["startDate"],
     endDate |-> body.d["endDate"],
     items |-> [i \in 1..Len(body.d["items"].v) |-> Item(body.d["items"].v[i])]]

(***************************************************************************)
(* Inputs.  A run draws its requests either from a few inputs, and then    *)
(* follows up to MaxInserts insertions ("history"), or from many inputs,   *)
(* and then posts to the empty store and reads back ("inputs").            *)
(***************************************************************************)
Scenarios == {"history", "inputs"}

\* a request that posts is drawn
Posting == scenario = "history" \/ log = << >>

\* and it may insert
CanInsert == scenario = "history" => Len(log) < MaxInserts

\* url texts: canonical ones, one that HttpUrl rewrites, malformed ones
UrlA == Str(<<"https", "://", "a.example", "/1">>)

UrlB == Str(<<"https", "://", "a.example", "/2">>)

UrlUpper == Str(<<"HTTPS", "://", "A.Example">>)

UrlBad == Str(<<"not-a-url">>)

UrlFtp == Str(<<"ftp", "://", "a.example", "/1">>)

RawItem(platform, dateISO, url, text) ==
    MkDict([platform |-> platform, dateISO |-> dateISO, url |-> url, text |-> text])

ItemA == RawItem(T("x"), T("2024-01-01T00:00:00Z"), UrlA, Str(<<"hello,", " ", "world">>))

ItemB == RawItem(T("instagram"), Missing, UrlB, Missing)

ItemUpper == RawItem(T("x"), NoneV, UrlUpper, Str(<<" ", "two", "\n", "lines", " ">>))

ItemBadUrl == RawItem(T("x"), Missing, UrlBad, Missing)

ItemFtp == RawItem(T("x"), Missing, UrlFtp, Missing)

ItemNoPlatform == RawItem(Missing, Missing, UrlA, Missing)

ItemNoUrl == RawItem(T("x"), Missing, Missing, Missing)

Body(page, items) ==
    [t |-> "dict",
     d |-> MkDict([source |-> T("orangemonkey"), page |-> page, platform |-> T("x"),
                   startDate |-> T("2024-01-01"), endDate |-> T("2024-01-31"),
                   items |-> items])]

\* the JSON text is not parseable, or the body is absent
Unparseable == [t |-> "invalid"]

SeqsUpTo(S, n) == UNION {[1..k -> S] : k \in 0..n}

IngestBodies ==
    IF scenario = "history"
    THEN {Body(T("https://x.com/acct"), List(<<ItemA>>)),
          Body(T("https://x.com/acct"), List(<<ItemB, ItemUpper>>)),
          Body(T("https://x.com/acct"), List(<<ItemBadUrl>>))}
    ELSE {Body(T("https://x.com/acct"), List(its)) :
              its \in SeqsUpTo({ItemA, ItemB, ItemUpper}, 2)}
         \cup {Body(T("https://x.com/acct"), List(<<ItemA, bad>>)) :
                  bad \in {ItemBadUrl, ItemFtp, ItemNoPlatform, ItemNoUrl}}
         \cup {Body(Missing, List(<<ItemA>>)),
               Body(PyInt(7), List(<<ItemA>>)),
               Body(T("https://x.com/acct"), Missing),
               Unparseable}

\* the value of the secret header of a request
Headers ==
    IF scenario = "history"
    THEN {Missing}
    ELSE {Missing, T("s3cret"), T("wrong")}

\* request.client.host, or no client
Clients == IF scenario = "history" THEN {T("203.0.113.7")} ELSE {T("203.0.113.7"), NoneV}

\* uploaded files: JSON objects in the OrangeMonkey export shape
\* { exportedAt, page, startDate, endDate, count, items }, with or without a
\* platform, and files that are not such an object
ExportItem == MkDict([platform |-> T("tiktok"), url |-> T("https://t.example/v"),
                      text |-> T("caption")])

ExportItemNoPlatform == MkDict([url |-> T("https://t.example/v")])

Export(platform, sourcePlatform, page, count, items) ==
    [t |-> "dict",
     d |-> MkDict([exportedAt |-> T("2026-02-13T12:00:00Z"), page |-> page,
                   startDate |-> T("2026-02-01"), endDate |-> T("2026-02-13"),
                   platform |-> platform, sourcePlatform |-> sourcePlatform,
                   count |-> count, items |-> items])]

UploadFiles ==
    IF scenario = "history"
    THEN {Export(Missing, Missing, T("https://t.example/acct"), PyInt(1), List(<<ExportItem>>)),
          Unparseable}
    ELSE {Export(pl, sp, pg, PyInt(7), its) :
              pl \in {Missing, T("x"), Str(<< >>), NoneV},
              sp \in {Missing, T("facebook")},
              pg \in {Missing, T("https://t.example/acct")},
              its \in {Missing, List(<< >>), List(<<ExportItem>>),
                       List(<<ExportItemNoPlatform, ExportItem>>),
                       List(<<T("https://t.example/v")>>),
                       Str(<<"a", "b">>), PyInt(5), NoneV}}
         \cup {Export(Missing, Missing, Missing, Missing, List(<<ExportItem>>)),
               Unparseable, Missing, List(<<ExportItem>>), NoneV}

\* pasted texts
Chars == {"a", "b", " ", "\n"}

ManualForms ==
    IF scenario = "history"
    THEN {[platform |-> T("x"), dateISO |-> Missing,
           urls |-> Str(<<"a", "\n", "\n", "b", "\n", " ", " ", "\n">>)]}
    ELSE {[platform |-> T("x"), dateISO |-> Str(<< >>), urls |-> Str(cs)] :
              cs \in SeqsUpTo(Chars, MaxLen)}
         \cup {[platform |-> T("x"), dateISO |-> T("2026-02-13T12:00:00Z"),
                urls |-> Str(<<" ", "a", " ", "b", "\r", "\n", "\r", "b">>)],
               [platform |-> T("x"), dateISO |-> Missing, urls |-> Missing],
               [platform |-> Str(<< >>), dateISO |-> Missing, urls |-> Str(<<"a">>)],
               [platform |-> Missing, dateISO |-> Missing, urls |-> Str(<<"a">>)]}

(***************************************************************************)
(* The store (src/main.py:43-57)                                           *)
(***************************************************************************)
now_utc_iso == clock

\* INGESTS.insert(0, record)
insert_front(store, record) == <<record>> \o store

truncate_head(store) ==
    IF Len(store) > MAX_INGESTS
    THEN SubSeq(store, Len(store) - MAX_INGESTS + 1, Len(store))
    ELSE store

\* if len(INGESTS) > MAX_INGESTS: del INGESTS[MAX_INGESTS:]
truncate_tail(store) ==
    IF Len(store) > MAX_INGESTS THEN SubSeq(store, 1, MAX_INGESTS) ELSE store

push_ingest_append(store, record) == truncate_tail(Append(store, record))

push_ingest(store, record) == truncate_tail(insert_front(store, record))

latest_items_flat ==
    IF INGESTS = << >> THEN List(<< >>) ELSE Get(INGESTS[1], "items", List(<< >>))

(***************************************************************************)
(* The CSV export (src/main.py:60-71).  The export is modelled as its rows *)
(* of field values, before the csv module quotes them.                     *)
(***************************************************************************)
CsvHeader == <<T("platform"), T("dateISO"), T("url"), T("text")>>

\* (it.get("text", "") or "").replace("\n", " ").strip()
CaptionText(it) ==
    LET text == Get(it, "text", Str(<< >>))
    IN Str(strip(replace_newlines(IF Truthy(text) THEN text.s ELSE << >>)))

\* csv.writer writes str(value), and nothing for None
CsvField(v) ==
    IF v.t = "Url" THEN UrlText(v) ELSE IF v.t = "None" THEN Str(<< >>) ELSE v

\* it.get raises for an element that is no dict, and .replace for a caption
\* that is neither falsy nor a str
CsvRowOk(it) ==
    /\ IsDict(it)
    /\ LET text == Get(it, "text", Str(<< >>)) IN Truthy(text) => IsStr(text)

\* iterating a str yields its characters, which have no .get
CsvOk(items) ==
    /\ items.t \in {"list", "str"}
    /\ items.t = "str" => items.s = << >>
    /\ items.t = "list" => \A i \in 1..Len(items.v) : CsvRowOk(items.v[i])

csv_from_items(items) ==
    <<CsvHeader>> \o
    (IF items.t = "list"
     THEN [i \in 1..Len(items.v) |->
              <<CsvField(Get(items.v[i], "platform", Str(<< >>))),
                CsvField(Get(items.v[i], "dateISO", Str(<< >>))),
                CsvField(Get(items.v[i], "url", Str(<< >>))),
                CaptionText(items.v[i])>>]
     ELSE << >>)

(***************************************************************************)
(* The records the three producers build                                   *)
(***************************************************************************)
\* src/main.py:261-271
ingest_record(payload, client) ==
    [received_at |-> now_utc_iso,
     source |-> payload.source,
     page |-> payload.page,
     platform |-> payload.platform,
     startDate |-> payload.startDate,
     endDate |-> payload.endDate,
     count |-> Len(payload.items),
     items |-> List(payload.items),
     client |-> client]

\* src/main.py:311-315: the fields read from the uploaded object
upload_items(d) == Get(d, "items", List(<< >>))

upload_platform(d) == Get(d, "platform", Get(d, "sourcePlatform", T("unknown")))

upload_count_from_file(d) == Get(d, "count", PyInt(PyLen(upload_items(d)))).v

\* len(items)
upload_count(d) == PyLen(upload_items(d))

\* src/main.py:317-327
upload_record(d) ==
    [received_at |-> now_utc_iso,
     source |-> T("upload"),
     page |-> Get(d, "page", T("uploaded-file")),
     platform |-> IF Truthy(upload_platform(d)) THEN upload_platform(d) ELSE T("unknown"),
     startDate |-> Get(d, "startDate", Str(<< >>)),
     endDate |-> Get(d, "endDate", Str(<< >>)),
     count |-> upload_count(d),
     items |-> upload_items(d),
     client |-> NoneV]

\* src/main.py:339: [ln.strip() for ln in (urls or "").splitlines() if ln.strip()]
manual_lines_keep_blank(urls) ==
    LET all == splitlines(urls.s) IN [i \in 1..Len(all) |-> strip(all[i])]

manual_lines(urls) ==
    LET kept == SelectSeq(splitlines(urls.s), LAMBDA ln : strip(ln) /= << >>)
    IN [i \in 1..Len(kept) |-> strip(kept[i])]

\* src/main.py:340
manual_items(platform, dateISO, urls) ==
    LET lines == manual_lines(urls)
    IN [i \in 1..Len(lines) |->
           [platform |-> platform,
            dateISO |-> IF Truthy(dateISO) THEN dateISO ELSE Str(<< >>),
            url |-> Str(lines[i]),
            text |-> Str(<< >>)]]

\* src/main.py:342-352
manual_record(platform, dateISO, urls) ==
    [received_at |-> now_utc_iso,
     source |-> T("manual"),
     page |-> T("manual-input"),
     platform |-> platform,
     startDate |-> Str(<< >>),
     endDate |-> Str(<< >>),
     count |-> Len(manual_items(platform, dateISO, urls)),
     items |-> List(manual_items(platform, dateISO, urls)),
     client |-> NoneV]

(***************************************************************************)
(* The handlers of src/main.py, each as one atomic step                    *)
(***************************************************************************)
Idle == wpc = "idle" /\ rpc = "idle"

NoRead == [op |-> "none"]

Init ==
    /\ INGESTS = << >>
    /\ clock = 0
    /\ shared_secret \in {Str(<< >>), T("s3cret")}
    /\ scenario \in Scenarios
    /\ req = [op |-> "none"]
    /\ resp = [status |-> 0]
    /\ log = << >>
    /\ wpc = "idle"
    /\ rpc = "idle"
    /\ rseen = NoRead

\* DASHBOARD_ROWS: recent = INGESTS[:10]
DASHBOARD_ROWS == 10

DashboardRow(r) ==
    <<Get(r, "received_at", Str(<< >>)), Get(r, "platform", Str(<< >>)),
      Get(r, "source", Str(<< >>)), Get(r, "count", Str(<< >>)),
      Get(r, "page", Str(<< >>))>>

Recent(store) ==
    LET n == IF Len(store) < DASHBOARD_ROWS THEN Len(store) ELSE DASHBOARD_ROWS
    IN [i \in 1..n |-> DashboardRow(store[i])]

\* GET /
home ==
    /\ Idle
    /\ req' = [op |-> "home"]
    /\ resp' = [status |-> 200, service_time |-> now_utc_iso,
                rows |-> Recent(INGESTS), stored |-> Len(INGESTS), max |-> MAX_INGESTS]
    /\ UNCHANGED <<INGESTS, clock, shared_secret, scenario, log, wpc, rpc, rseen>>

\* GET /health
health ==
    /\ Idle
    /\ req' = [op |-> "health"]
    /\ resp' = [status |-> 200, ok |-> TRUE]
    /\ UNCHANGED <<INGESTS, clock, shared_secret, scenario, log, wpc, rpc, rseen>>

\* GET /ingest
ingest_help ==
    /\ Idle
    /\ req' = [op |-> "ingest_help"]
    /\ resp' = [status |-> 200, text |-> "This is the ingest API endpoint."]
    /\ UNCHANGED <<INGESTS, clock, shared_secret, scenario, log, wpc, rpc, rseen>>

\* POST /ingest: a body that fails Payload validation is answered 422 before
\* the handler runs
ingest ==
    /\ Idle
    /\ Posting
    /\ \E body \in IngestBodies, hdr \in Headers, client \in Clients :
        /\ req' = [op |-> "ingest", hdr |-> hdr, body |-> body]
        /\ IF ~PayloadOk(body)
           THEN /\ resp' = [status |-> 422]
                /\ UNCHANGED <<INGESTS, clock, log>>
           ELSE /\ CanInsert
                /\ LET record == ingest_record(Payload(body), client)
                   IN /\ INGESTS' = push_ingest(INGESTS, record)
                      /\ log' = Append(log, record)
                /\ clock' = clock + 1
                /\ resp' = [status |-> 200, count |-> Len(Payload(body).items)]
    /\ UNCHANGED <<shared_secret, scenario, wpc, rpc, rseen>>

\* GET /api/ingests
api_ingests ==
    /\ Idle
    /\ req' = [op |-> "api_ingests"]
    /\ resp' = [status |-> 200, count |-> Len(INGESTS), max |-> MAX_INGESTS,
                ingests |-> INGESTS]
    /\ UNCHANGED <<INGESTS, clock, shared_secret, scenario, log, wpc, rpc, rseen>>

\* GET /download/latest.csv
download_latest_csv ==
    /\ Idle
    /\ req' = [op |-> "download_latest_csv"]
    /\ LET items == latest_items_flat
       IN resp' = IF CsvOk(items)
                  THEN [status |-> 200, media_type |-> "text/csv",
                        rows |-> csv_from_items(items)]
                  ELSE [status |-> 500]
    /\ UNCHANGED <<INGESTS, clock, shared_secret, scenario, log, wpc, rpc, rseen>>

\* POST /upload: 422 without a file, 400 for a file that is not JSON, 500 when
\* payload.get or len(items) raises
upload_json ==
    /\ Idle
    /\ Posting
    /\ \E file \in UploadFiles :
        /\ req' = [op |-> "upload", file |-> file]
        /\ IF file.t \in {"missing", "invalid"} \/ file.t /= "dict"
              \/ ~HasLen(upload_items(file.d))
           THEN /\ resp' = [status |-> IF file.t = "missing" THEN 422
                                       ELSE IF file.t = "invalid" THEN 400 ELSE 500]
                /\ UNCHANGED <<INGESTS, clock, log>>
           ELSE /\ CanInsert
                /\ LET record == upload_record(file.d)
                   IN /\ INGESTS' = push_ingest(INGESTS, record)
                      /\ log' = Append(log, record)
                /\ clock' = clock + 1
                /\ resp' = [status |-> 200]
    /\ UNCHANGED <<shared_secret, scenario, wpc, rpc, rseen>>

\* Form(...): the field is required, and FastAPI reads an empty form value as
\* no value; Form(""): the default "" stands in for no value
FormRequiredOk(v) == IsStr(v) /\ v.s /= << >>

FormDefault(v, default) == IF IsStr(v) /\ v.s /= << >> THEN v ELSE default

\* POST /manual
manual_links ==
    /\ Idle
    /\ Posting
    /\ \E form \in ManualForms :
        /\ req' = [op |-> "manual", form |-> form]
        /\ IF ~(FormRequiredOk(form.platform) /\ FormRequiredOk(form.urls))
           THEN /\ resp' = [status |-> 422]
                /\ UNCHANGED <<INGESTS, clock, log>>
           ELSE /\ CanInsert
                /\ LET record == manual_record(form.platform,
                                               FormDefault(form.dateISO, Str(<< >>)),
                                               form.urls)
                   IN /\ INGESTS' = push_ingest(INGESTS, record)
                      /\ log' = Append(log, record)
                /\ clock' = clock + 1
                /\ resp' = [status |-> 200]
    /\ UNCHANGED <<shared_secret, scenario, wpc, rpc, rseen>>

(***************************************************************************)
(* POST /ingest of src/is-link-ingestor/main.py: the stand-alone module    *)
(* validates the same Payload, logs it and keeps nothing                   *)
(***************************************************************************)
ingest_log_only ==
    /\ Idle
    /\ Posting
    /\ \E body \in IngestBodies :
        /\ req' = [op |-> "ingest_log_only", body |-> body]
        /\ resp' = IF PayloadOk(body)
                   THEN [status |-> 200, count |-> Len(Payload(body).items)]
                   ELSE [status |-> 422]
    /\ UNCHANGED <<INGESTS, clock, shared_secret, scenario, log, wpc, rpc, rseen>>

Next ==
    \/ home
    \/ health
    \/ ingest_help
    \/ ingest
    \/ api_ingests
    \/ download_latest_csv
    \/ upload_json
    \/ manual_links
    \/ ingest_log_only

Spec == Init /\ [][Next]_vars

(***************************************************************************)
(* The same handlers step by step.  The async handlers run on the event    *)
(* loop, so they do not interleave with each other; home and api_ingests   *)
(* are plain functions, which FastAPI runs in worker threads, and a thread *)
(* switch can fall between the two statements of push_ingest and between   *)
(* two reads of INGESTS.  No lock guards INGESTS.                          *)
(***************************************************************************)
InitConc == Init /\ scenario = "history"

\* the event loop: POST /ingest up to INGESTS.insert(0, record)
ingest_insert ==
    /\ wpc = "idle"
    /\ CanInsert
    /\ \E body \in IngestBodies, hdr \in Headers, client \in Clients :
        /\ PayloadOk(body)
        /\ req' = [op |-> "ingest", hdr |-> hdr, body |-> body]
        /\ LET record == ingest_record(Payload(body), client)
           IN /\ INGESTS' = insert_front(INGESTS, record)
              /\ log' = Append(log, record)
    /\ clock' = clock + 1
    /\ wpc' = "inserted"
    /\ UNCHANGED <<shared_secret, scenario, resp, rpc, rseen>>

\* the event loop: POST /manual up to INGESTS.insert(0, record)
manual_links_insert ==
    /\ wpc = "idle"
    /\ CanInsert
    /\ \E form \in ManualForms :
        /\ FormRequiredOk(form.platform) /\ FormRequiredOk(form.urls)
        /\ req' = [op |-> "manual", form |-> form]
        /\ LET record == manual_record(form.platform,
                                       FormDefault(form.dateISO, Str(<< >>)),
                                       form.urls)
           IN /\ INGESTS' = insert_front(INGESTS, record)
              /\ log' = Append(log, record)
    /\ clock' = clock + 1
    /\ wpc' = "inserted"
    /\ UNCHANGED <<shared_secret, scenario, resp, rpc, rseen>>

\* the event loop: the rest of push_ingest, and the handler's response
push_ingest_truncate ==
    /\ wpc = "inserted"
    /\ INGESTS' = truncate_tail(INGESTS)
    /\ resp' = IF req.op = "ingest"
               THEN [status |-> 200, count |-> Len(Payload(req.body).items)]
               ELSE [status |-> 200]
    /\ wpc' = "idle"
    /\ UNCHANGED <<clock, shared_secret, scenario, req, log, rpc, rseen>>

\* a worker thread: api_ingests evaluates len(INGESTS) and returns the dict,
\* which holds the list itself
api_ingests_count ==
    /\ rpc = "idle"
    /\ rseen' = [op |-> "api_ingests", count |-> Len(INGESTS)]
    /\ rpc' = "api_counted"
    /\ UNCHANGED <<INGESTS, clock, shared_secret, scenario, req, resp, log, wpc>>

\* the event loop encodes the returned dict: it reads the list as it is then
api_ingests_encode ==
    /\ rpc = "api_counted"
    /\ wpc = "idle"
    /\ resp' = [status |-> 200, count |-> rseen.count, max |-> MAX_INGESTS,
                ingests |-> INGESTS]
    /\ rpc' = "idle"
    /\ rseen' = NoRead
    /\ UNCHANGED <<INGESTS, clock, shared_secret, scenario, req, log, wpc>>

\* a worker thread: home evaluates recent = INGESTS[:10]
home_recent ==
    /\ rpc = "idle"
    /\ rseen' = [op |-> "home", service_time |-> now_utc_iso, rows |-> Recent(INGESTS)]
    /\ rpc' = "home_sliced"
    /\ UNCHANGED <<INGESTS, clock, shared_secret, scenario, req, resp, log, wpc>>

\* the same thread, later: the page is formatted with len(INGESTS)
home_render ==
    /\ rpc = "home_sliced"
    /\ resp' = [status |-> 200, service_time |-> rseen.service_time,
                rows |-> rseen.rows, stored |-> Len(INGESTS), max |-> MAX_INGESTS]
    /\ rpc' = "idle"
    /\ rseen' = NoRead
    /\ UNCHANGED <<INGESTS, clock, shared_secret, scenario, req, log, wpc>>

NextConc ==
    \/ ingest_insert
    \/ manual_links_insert
    \/ push_ingest_truncate
    \/ api_ingests_count
    \/ api_ingests_encode
    \/ home_recent
    \/ home_render

SpecConc == InitConc /\ [][NextConc]_vars

(***************************************************************************)
(* Properties                                                              *)
(***************************************************************************)
Min(a, b) == IF a < b THEN a ELSE b

ReadOps == {"home", "health", "ingest_help", "api_ingests", "download_latest_csv"}

Sources(records) == {records[i].source : i \in 1..Len(records)}

\* C1: after N insertions through push_ingest, from any mix of the three
\* producers, the store holds exactly the min(N, MAX_INGESTS) most recently
\* inserted records, newest first; the older ones are the ones evicted.
C1_StoreHoldsNewest ==
    LET n == Len(log)
        k == Min(n, MAX_INGESTS)
    IN /\ Len(INGESTS) = k
       /\ \A i \in 1..k : INGESTS[i] = log[n + 1 - i]

\* C1, witness: more insertions than the capacity, from all three producers
C1_Witness ==
    /\ Len(log) > MAX_INGESTS + 1
    /\ Len(INGESTS) = MAX_INGESTS
    /\ Sources(log) = {T("orangemonkey"), T("upload"), T("manual")}
    /\ INGESTS[1] /= INGESTS[2]

\* C2: with a secret configured, a POST /ingest that omits the secret header or
\* presents another value is answered unauthorized and inserts nothing.
C2_GateRejects ==
    [][(/\ req'.op = "ingest"
        /\ PayloadOk(req'.body)
        /\ shared_secret /= Str(<< >>)
        /\ req'.hdr /= shared_secret)
          => (resp'.status = 401 /\ INGESTS' = INGESTS)]_vars

\* C3: GET /download/latest.csv on the empty store is answered not found,
\* never with a CSV.
C3_EmptyStoreNotFound ==
    (req.op = "download_latest_csv" /\ INGESTS = << >>) => resp.status = 404

\* C4: a reader running beside an insertion never sees more than MAX_INGESTS
\* records, and the count it reports is the number of records it returns.
C4_ReaderSeesWholeInsertions ==
    /\ "count" \in DOMAIN rseen => rseen.count <= MAX_INGESTS
    /\ "ingests" \in DOMAIN resp =>
           (resp.count <= MAX_INGESTS /\ resp.count = Len(resp.ingests))
    /\ "stored" \in DOMAIN resp => resp.stored <= MAX_INGESTS

\* C6: every stored record has count = len(items), whichever producer built
\* it and whatever was inserted or evicted after it.
C6_CountIsLength ==
    \A i \in 1..Len(INGESTS) :
        /\ HasLen(INGESTS[i].items)
        /\ INGESTS[i].count = PyLen(INGESTS[i].items)

\* C6, witness: a full store after an eviction, holding records of all three
\* producers, one of them with several items
C6_Witness ==
    /\ Len(log) > MAX_INGESTS
    /\ Sources(INGESTS) = {T("orangemonkey"), T("upload"), T("manual")}
    /\ \E i \in 1..Len(INGESTS) : INGESTS[i].count >= 2

\* C10: a step changes no stored record: it leaves the store as it is, or puts
\* one record in front of the records that were there, each one place further
\* back, dropping the last one of a full store; the read requests leave the
\* store as it is.
C10_RecordsImmutable ==
    [][/\ \/ INGESTS' = INGESTS
          \/ /\ Len(INGESTS') = Min(Len(INGESTS) + 1, MAX_INGESTS)
             /\ \A i \in 2..Len(INGESTS') : INGESTS'[i] = INGESTS[i - 1]
       /\ req'.op \in ReadOps => INGESTS' = INGESTS]_vars

\* C10, witness: a read of a full store whose oldest record was evicted
C10_Witness ==
    /\ req.op = "api_ingests"
    /\ Len(log) > MAX_INGESTS
    /\ resp.ingests = INGESTS
    /\ INGESTS[MAX_INGESTS] = log[Len(log) + 1 - MAX_INGESTS]

\* the submissions C5 is about: a direct payload with a malformed item url or
\* without a required string field, and an upload that is no JSON, or whose
\* JSON value is no object with a list (or str) of items
MalformedPayload(body) ==
    IF body.t /= "dict" THEN TRUE
    ELSE \/ \E k \in {"source", "page", "platform", "startDate", "endDate"} :
                IF k \in DOMAIN body.d THEN body.d[k].t /= "str" ELSE TRUE
         \/ IF "items" \in DOMAIN body.d
            THEN \E i \in 1..Len(body.d["items"].v) :
                    LET it == body.d["items"].v[i]
                    IN IF {"platform", "url"} \subseteq DOMAIN it
                       THEN it["url"] = UrlBad
                       ELSE TRUE
            ELSE TRUE

UnusableUpload(file) ==
    IF file.t /= "dict" THEN TRUE
    ELSE IF "items" \in DOMAIN file.d
         THEN file.d["items"].t \in {"int", "None"}
         ELSE FALSE

Rejected(r) ==
    \/ r.op = "ingest" /\ MalformedPayload(r.body)
    \/ r.op = "upload" /\ UnusableUpload(r.file)

\* C5: a rejected submission (a payload with a malformed item url or without
\* a required string field; an upload that is no JSON or cannot be turned into
\* a record) is answered with an error and leaves the store as it was.
C5_RejectedLeavesStore ==
    [][Rejected(req') => (resp'.status >= 400 /\ INGESTS' = INGESTS /\ log' = log)]_vars

\* C5, witness: the payload with the item url "not-a-url" was rejected by a
\* store that holds records
C5_Witness ==
    /\ req.op = "ingest"
    /\ req.body.t = "dict"
    /\ Get(req.body.d, "items", NoneV) = List(<<ItemBadUrl>>)
    /\ resp.status = 422
    /\ Len(INGESTS) >= 2

\* the submitted value of an optional item field: null when omitted
Submitted(it, k) == IF k \in DOMAIN it THEN it[k] ELSE NoneV

\* the text of a stored url
StoredUrlText(u) == IF u.t = "Url" THEN Str(u.s) ELSE u

\* the normal form of a url text: scheme and host in lower case, and the path
\* "/" when the text has none
NormalForm(url) ==
    IF url = UrlUpper THEN Str(<<"https", "://", "a.example", "/">>) ELSE url

\* the newest record carries the submitted fields, and its items the
\* submitted items, with the url texts as ExpectedUrl gives them
NewestIsSubmitted(ExpectedUrl(_)) ==
    LET r == INGESTS[1]
        b == req.body.d
        sub == b["items"].v
    IN /\ r.source = b["source"]
       /\ r.page = b["page"]
       /\ r.platform = b["platform"]
       /\ r.startDate = b["startDate"]
       /\ r.endDate = b["endDate"]
       /\ r.items.t = "list"
       /\ Len(r.items.v) = Len(sub)
       /\ \A i \in 1..Len(sub) :
            /\ r.items.v[i]["platform"] = sub[i]["platform"]
            /\ r.items.v[i]["dateISO"] = Submitted(sub[i], "dateISO")
            /\ StoredUrlText(r.items.v[i]["url"]) = ExpectedUrl(sub[i]["url"])
            /\ r.items.v[i]["text"] = Submitted(sub[i], "text")
       /\ r.count = Len(sub)
       /\ resp.count = Len(sub)

AsSubmitted(url) == url

\* C7 as stated: after a successful POST /ingest the newest record has exactly
\* the submitted source, page, platform, startDate, endDate and items, in the
\* submitted order, and the count returned is the number of items and the
\* record's count.
C7_NewestIsExactlySubmitted ==
    (req.op = "ingest" /\ resp.status = 200) => NewestIsSubmitted(AsSubmitted)

\* C7 as amended: the same, with each item's url in the normal form that
\* HttpUrl validation gives it (scheme and host lower-cased, path "/" added
\* when the url has none); the stand-alone /ingest returns the number of
\* submitted items as well.
C7_NewestIsNormalisedSubmitted ==
    /\ (req.op = "ingest" /\ resp.status = 200) => NewestIsSubmitted(NormalForm)
    /\ (req.op = "ingest_log_only" /\ resp.status = 200) =>
           resp.count = Len(req.body.d["items"].v)

\* C7, witness: a successful POST /ingest of two items, one of them with a url
\* that is not in normal form, into a store that holds records
C7_Witness ==
    /\ req.op = "ingest"
    /\ resp.status = 200
    /\ resp.count = 2
    /\ \E i \in 1..2 : req.body.d["items"].v[i]["url"] = UrlUpper
    /\ Len(INGESTS) >= 2

\* the platform C8 expects for an upload without a top-level platform
PlatformOfFirstItem(d) ==
    LET items == Get(d, "items", List(<< >>))
    IN IF items.t = "list"
       THEN (IF items.v /= << >>
             THEN (IF IsDict(items.v[1])
                   THEN Get(items.v[1], "platform", T("unknown"))
                   ELSE T("unknown"))
             ELSE T("unknown"))
       ELSE T("unknown")

\* C8: the record stored for an uploaded export object without a top-level
\* platform has the platform of the first element of items, and "unknown"
\* when that has none or there are no items.
C8_PlatformOfFirstItem ==
    (/\ req.op = "upload"
     /\ resp.status = 200
     /\ "platform" \notin DOMAIN req.file.d)
        => INGESTS[1].platform = PlatformOfFirstItem(req.file.d)

\* the trimmed lines of a text, by position: <<i, j>> is one when cs[i] and
\* cs[j] are not whitespace, no line break lies between them, and whatever
\* shares their line before i or after j is whitespace
TrimmedLines(cs) ==
    LET n == Len(cs)
        SameLine(a, b) == \A m \in a..b : cs[m] \notin LineBreaks
    IN {p \in (1..n) \X (1..n) :
          /\ p[1] <= p[2]
          /\ cs[p[1]] \notin Whitespace
          /\ cs[p[2]] \notin Whitespace
          /\ SameLine(p[1], p[2])
          /\ \A k \in 1..(p[1] - 1) : SameLine(k, p[1] - 1) => cs[k] \in Whitespace
          /\ \A k \in (p[2] + 1)..n : SameLine(p[2] + 1, k) => cs[k] \in Whitespace}

\* the place of a trimmed line among them, in the order of the text
Rank(p, lines) == 1 + Cardinality({q \in lines : q[1] < p[1]})

\* record r is the manual record of the form: one item per trimmed line, in
\* the order of the text, with the line as url and an empty caption
IsManualRecordOf(r, form) ==
    LET lines == TrimmedLines(form.urls.s)
    IN /\ r.source = T("manual")
       /\ r.platform = form.platform
       /\ r.items.t = "list"
       /\ r.count = Cardinality(lines)
       /\ Len(r.items.v) = Cardinality(lines)
       /\ \A p \in lines :
            LET it == r.items.v[Rank(p, lines)]
            IN /\ it["url"] = Str(SubSeq(form.urls.s, p[1], p[2]))
               /\ it["text"] = Str(<< >>)
               /\ it["platform"] = form.platform

InsertsManualRecord(form) ==
    /\ resp'.status = 200
    /\ Len(log') = Len(log) + 1
    /\ INGESTS'[1] = log'[Len(log')]
    /\ IsManualRecordOf(INGESTS'[1], form)

NonEmptyStr(v) == IF v.t = "str" THEN v.s /= << >> ELSE FALSE

\* C9 as stated: every POST /manual with a platform and a pasted text inserts
\* exactly one record with source "manual" and one item per non-blank line,
\* trimmed, in input order; a paste without a non-blank line, the empty paste
\* included, inserts a record with count 0.
C9_EveryPasteInserts ==
    [][(req'.op = "manual" /\ NonEmptyStr(req'.form.platform) /\ req'.form.urls.t = "str")
          => InsertsManualRecord(req'.form)]_vars

\* C9 as amended: every POST /manual whose platform and urls fields are not
\* empty inserts exactly that record (count 0 for a paste of nothing but
\* whitespace and line breaks); a POST /manual whose platform or urls field
\* is empty or absent is answered 422 and inserts nothing.
C9_NonEmptyPasteInserts ==
    [][req'.op = "manual" =>
          IF NonEmptyStr(req'.form.platform) /\ NonEmptyStr(req'.form.urls)
          THEN InsertsManualRecord(req'.form)
          ELSE resp'.status = 422 /\ INGESTS' = INGESTS /\ log' = log]_vars

\* C9, witness: the paste "a", blank line, "b", whitespace-only line gave a
\* record of two items, put in front of another record
C9_Witness ==
    /\ req.op = "manual"
    /\ resp.status = 200
    /\ req.form.urls = Str(<<"a", "\n", "\n", "b", "\n", " ", " ", "\n">>)
    /\ INGESTS[1].count = 2
    /\ INGESTS[1].items.v[2]["url"] = T("b")
    /\ Len(INGESTS) >= 2

=============================================================================
